---- MODULE Spec2Model ----
(***************************************************************************)
(* The asynchronous FileService of backup-tool (src/unnamed/part_003,      *)
(* lines 1-476): a content-addressed blob store, a chain of snapshot       *)
(* deltas kept as one JSON file per id, reconstruction with per-instance   *)
(* memo caches, restore, prune with blob garbage collection, and the size   *)
(* queries with their per-instance cache of blob sizes.                    *)
(* Beside it: listSnapshots, a createSnapshot of a second process taken    *)
(* step by step (writer), and the synchronous variant of the same file     *)
(* (lines 477-752) on a database of its own (syncSnaps, syncBlobs).        *)
(*                                                                         *)
(* Abstractions, each the same for every property below:                   *)
(*  - a directory tree is a map relative path -> content; nesting only     *)
(*    changes the spelling of the relative path (flattenDirWithContent);   *)
(*  - sha256 is a table from the contents of the model to distinct         *)
(*    digests (collision freedom on the contents that occur);              *)
(*  - changes.deleted is an array built from distinct keys whose order is  *)
(*    never read: it is a set here;                                        *)
(*  - a shard directory blobs/<d[0:2]> exists exactly while it holds a     *)
(*    blob (storeBlob makes it, the sweep removes it when empty), so the   *)
(*    blob store is the map digest -> bytes of blobs/<d[0:2]>/<d[2:]>;     *)
(*  - dates are the ticks of a clock instead of ISO strings; the empty     *)
(*    date of the sentinel record is NoDate;                               *)
(*  - the stat size of a blob is the byte length of its content; the       *)
(*    number a size query returns is kept in size until the next call.     *)
(***************************************************************************)
EXTENDS Integers, FiniteSets, Sequences, TLC

\* ---------------------------------------------------------------- bounds
\* createSnapshot calls in one behaviour
MaxCreates == 3

\* relative paths and file contents that occur
PathOrder == <<"a.txt", "b.txt">>
Paths == {PathOrder[i] : i \in DOMAIN PathOrder}
Contents == {"alpha", "beta"}

\* ------------------------------------------------------------- data model
\* parent: number | null
Null == 0
\* date: "" of the sentinel record loadSnapshot returns for a missing file
NoDate == 0

Ids == 1..MaxCreates

\* crypto.createHash("sha256").update(content).digest("hex")
HashContent(content) ==
    CASE content = "alpha" -> "8ed3f6ad"
      [] content = "beta"  -> "f44e64e7"
      [] content = "8ed3f6ad" -> "d737ee39"
      [] content = "f44e64e7" -> "e12534af"
      [] OTHER             -> "e3b0c442"

Digests == {HashContent(c) : c \in Contents}

\* stat.size of a file holding content: its length in bytes
ByteLength(content) ==
    CASE content = "alpha" -> 5
      [] content = "beta" -> 4
      [] OTHER -> 0

\* readdir of the blobs directory: the shard directories and their files
DigestOrder == <<"8ed3f6ad", "f44e64e7">>

\* Flat = { [key: string]: string }
EmptyFlat == [p \in {} |-> ""]

\* SnapshotChanges with nothing in it
EmptyChanges == [added |-> EmptyFlat, modified |-> EmptyFlat, deleted |-> {}]

\* the directory trees createSnapshot is given: the empty tree, a.txt alone
\* with either content, and b.txt beside a.txt = "alpha" with either content
\* (equal contents at two paths, and two different contents in one tree)
Dirs ==
    {d \in UNION {[S -> Contents] : S \in SUBSET Paths} :
        "b.txt" \in DOMAIN d => ("a.txt" \in DOMAIN d /\ d["a.txt"] = "alpha")}

\* no write in flight
NoWrite == [phase |-> "none", id |-> Null, parent |-> Null]

\* no createSnapshot of the other process under way
NoWriter == [phase |-> "idle", dir |-> [p \in {} |-> ""], id |-> Null,
             parent |-> Null, date |-> NoDate,
             changes |-> EmptyChanges]

\* no restore target written
EmptyTarget == [p \in {} |-> ""]

VARIABLES
    snaps,          \* snapshots/<id>.json : id -> Snapshot
    blobs,          \* blobs/<d[0:2]>/<d[2:]> : digest -> bytes
    snapshotCache,  \* this.snapshotCache : id -> Snapshot
    flatCache,      \* this.flatCache : id -> Flat
    pending,        \* the writeFile of prune's saveSnapshot that nobody awaits
    clock,          \* new Date(): createSnapshot calls so far
    issued,         \* history: every id createSnapshot has handed out
    target,         \* the directory the last restoreSnapshot wrote
    current,        \* history: the tree given to the last createSnapshot
    blobSizeCache,  \* this.blobSizeCache : digest -> bytes
    size,           \* the number the last size query returned, 0 otherwise
    listing,        \* the array the last listSnapshots returned, <<>> otherwise
    writer,         \* a createSnapshot of another process, step by step
    syncSnaps,      \* snapshots/<id>.json of the synchronous variant's database
    syncBlobs,      \* the blobs of the synchronous variant's database
    last            \* the last call: its name, the id createSnapshot gave or
                    \* pruneSnapshot removed, its outcome, the digest or
                    \* the error it ended with

vars == <<snaps, blobs, snapshotCache, flatCache, pending, clock, issued,
          target, current, blobSizeCache, size, listing, writer,
          syncSnaps, syncBlobs, last>>

NoCurrent == [id |-> Null, dir |-> EmptyTarget]

\* ------------------------------------------------------------- blob store
\* blobPath(hash) exists
BlobExists(store, hash) == hash \in DOMAIN store

\* storeBlob with the EEXIST error rethrown like any other
StoreBlobRethrow(store, content) ==
    LET hash == HashContent(content) IN
    IF BlobExists(store, hash)
    THEN [ok |-> FALSE, hash |-> hash, store |-> store]
    ELSE [ok |-> TRUE, hash |-> hash, store |-> (hash :> content) @@ store]

\* storeBlob(content): writeFileSync with flag 'wx'; EEXIST is caught and the
\* hash returned, any other error is rethrown (none is modelled)
StoreBlob(store, content) ==
    LET hash == HashContent(content) IN
    IF BlobExists(store, hash)
    THEN [ok |-> TRUE, hash |-> hash, store |-> store]
    ELSE [ok |-> TRUE, hash |-> hash, store |-> (hash :> content) @@ store]

\* flattenDirWithContent(dirPath)[0]: relative path -> hash of the bytes read
FlattenDir(dir) == [p \in DOMAIN dir |-> HashContent(dir[p])]

\* ---------------------------------------------------------- snapshot files
\* lastSnapshotId() returning files.length instead of the greatest id
LastSnapshotIdCount(disk) ==
    IF DOMAIN disk = {} THEN Null ELSE Cardinality(DOMAIN disk)

\* lastSnapshotId(): null without files, else the greatest id
LastSnapshotId(disk) ==
    IF DOMAIN disk = {} THEN Null
    ELSE CHOOSE m \in DOMAIN disk : \A k \in DOMAIN disk : k <= m

\* the record loadSnapshot makes up for a file that does not exist
Sentinel(id) == [id |-> id, date |-> NoDate, parent |-> Null, changes |-> EmptyChanges]

\* loadSnapshot(id): the sentinel for a missing file, else the parsed file
LoadSnapshot(disk, id) == IF id \in DOMAIN disk THEN disk[id] ELSE Sentinel(id)

\* loadSnapshotWithCache(id): the cached record if any, else the file, which
\* is then cached; a missing file is an error
LoadSnapshotWithCache(id, cache, disk) ==
    IF id \in DOMAIN cache
    THEN [ok |-> TRUE, snapshot |-> cache[id], cache |-> cache]
    ELSE IF id \in DOMAIN disk
    THEN [ok |-> TRUE, snapshot |-> disk[id], cache |-> (id :> disk[id]) @@ cache]
    ELSE [ok |-> FALSE, snapshot |-> Sentinel(id), cache |-> cache]

\* Object.values(obj) in the insertion order of the keys (the scan's order)
RECURSIVE ValuesFrom(_, _)
ValuesFrom(obj, i) ==
    IF i > Len(PathOrder) THEN <<>>
    ELSE (IF PathOrder[i] \in DOMAIN obj THEN <<obj[PathOrder[i]]>> ELSE <<>>)
         \o ValuesFrom(obj, i + 1)

\* blobsInSnapshot without the spread of changes.modified
BlobsAddedOnly(snap) == ValuesFrom(snap.changes.added, 1)

\* blobsInSnapshot(snap): the hashes of added, then those of modified
BlobsInSnapshot(snap) ==
    ValuesFrom(snap.changes.added, 1) \o ValuesFrom(snap.changes.modified, 1)

Range(seq) == {seq[i] : i \in DOMAIN seq}

\* ------------------------------------------------------------ reconstruct
\* one round of the replay loop: added and modified are upserts, then the
\* deleted keys are removed
ApplyChanges(flat, changes) ==
    LET up == changes.modified @@ (changes.added @@ flat) IN
    [p \in (DOMAIN up) \ changes.deleted |-> up[p]]

\* the while loop of reconstructSnapshot: follow parent from currentId to
\* null, each record through loadSnapshotWithCache, oldest first in the chain
RECURSIVE LoadChain(_, _, _)
LoadChain(currentId, cache, disk) ==
    IF currentId = Null
    THEN [ok |-> TRUE, chain |-> <<>>, cache |-> cache]
    ELSE LET r == LoadSnapshotWithCache(currentId, cache, disk) IN
         IF ~r.ok
         THEN [ok |-> FALSE, chain |-> <<>>, cache |-> r.cache]
         ELSE LET rest == LoadChain(r.snapshot.parent, r.cache, disk) IN
              [ok |-> rest.ok,
               chain |-> Append(rest.chain, r.snapshot),
               cache |-> rest.cache]

\* the for loop of reconstructSnapshot: apply each record of the chain and
\* cache a copy of the flat state under the record's id
RECURSIVE ReplayChain(_, _, _, _)
ReplayChain(chain, i, flat, fcache) ==
    IF i > Len(chain) THEN [flat |-> flat, cache |-> fcache]
    ELSE LET f == ApplyChanges(flat, chain[i].changes) IN
         ReplayChain(chain, i + 1, f, (chain[i].id :> f) @@ fcache)

\* reconstructSnapshot(id) on an instance with caches scache and fcache
ReconstructSnapshot(id, scache, fcache, disk) ==
    IF id \in DOMAIN fcache
    THEN [ok |-> TRUE, flat |-> fcache[id], scache |-> scache, fcache |-> fcache]
    ELSE LET c == LoadChain(id, scache, disk) IN
         IF ~c.ok
         THEN [ok |-> FALSE, flat |-> EmptyFlat, scache |-> c.cache, fcache |-> fcache]
         ELSE LET r == ReplayChain(c.chain, 1, EmptyFlat, fcache) IN
              [ok |-> TRUE, flat |-> r.flat, scache |-> c.cache, fcache |-> r.cache]

\* the constructor's caches
NoSnapshots == [i \in {} |-> Sentinel(i)]
NoFlats == [i \in {} |-> EmptyFlat]
NoBlobs == [d \in {} |-> ""]
NoSizes == [d \in {} |-> 0]

\* reconstructSnapshot(id) as a new instance computes it from the files alone
Replay(disk, id) == ReconstructSnapshot(id, NoSnapshots, NoFlats, disk)

\* --------------------------------------------------------- createSnapshot
\* the first pass without its hash comparison: a path the parent has is
\* modified whether or not its hash changed
ClassifyNoHashTest(flat, parentFlat) ==
    LET added == {p \in DOMAIN flat : p \notin DOMAIN parentFlat}
        modified == {p \in DOMAIN flat : p \in DOMAIN parentFlat}
    IN [added |-> [p \in added |-> flat[p]],
        modified |-> [p \in modified |-> flat[p]],
        deleted |-> {p \in DOMAIN parentFlat : p \notin DOMAIN flat}]

\* the first pass without its test on the parent: every scanned path is added
ClassifyAddsAll(flat, parentFlat) ==
    LET modified == {p \in DOMAIN flat :
                        p \in DOMAIN parentFlat /\ parentFlat[p] # flat[p]}
    IN [added |-> flat,
        modified |-> [p \in modified |-> flat[p]],
        deleted |-> {p \in DOMAIN parentFlat : p \notin DOMAIN flat}]

\* the record saved with a deleted array that starts as [''], as the
\* synchronous variant initialises it
ClassifyDeletedSeed(flat, parentFlat) ==
    LET added == {p \in DOMAIN flat : p \notin DOMAIN parentFlat}
        modified == {p \in DOMAIN flat :
                        p \in DOMAIN parentFlat /\ parentFlat[p] # flat[p]}
    IN [added |-> [p \in added |-> flat[p]],
        modified |-> [p \in modified |-> flat[p]],
        deleted |-> {""} \cup {p \in DOMAIN parentFlat : p \notin DOMAIN flat}]

\* the two Promise.all passes of createSnapshot: the delta from parentFlat to
\* the scanned flat
ClassifyChanges(flat, parentFlat) ==
    LET added == {p \in DOMAIN flat : p \notin DOMAIN parentFlat}
        modified == {p \in DOMAIN flat :
                        p \in DOMAIN parentFlat /\ parentFlat[p] # flat[p]}
    IN [added |-> [p \in added |-> flat[p]],
        modified |-> [p \in modified |-> flat[p]],
        deleted |-> {p \in DOMAIN parentFlat : p \notin DOMAIN flat}]

\* the first pass's stores: every scanned file whose blob path does not exist
\* goes through storeBlob
RECURSIVE StoreFiles(_, _, _)
StoreFiles(store, dir, i) ==
    IF i > Len(PathOrder) THEN store
    ELSE LET p == PathOrder[i] IN
         IF p \in DOMAIN dir /\ ~BlobExists(store, HashContent(dir[p]))
         THEN StoreFiles(StoreBlob(store, dir[p]).store, dir, i + 1)
         ELSE StoreFiles(store, dir, i + 1)

Init ==
    /\ snaps = NoSnapshots
    /\ blobs = NoBlobs
    /\ snapshotCache = NoSnapshots
    /\ flatCache = NoFlats
    /\ pending = NoWrite
    /\ clock = 0
    /\ issued = {}
    /\ target = EmptyTarget
    /\ current = NoCurrent
    /\ blobSizeCache = NoSizes
    /\ size = 0
    /\ listing = <<>>
    /\ writer = NoWriter
    /\ syncSnaps = NoSnapshots
    /\ syncBlobs = NoBlobs
    /\ last = [op |-> "new", id |-> Null, ok |-> TRUE, ret |-> ""]

\* createSnapshot(dirPath), the tree at dirPath being dir
CreateSnapshot(dir) ==
    /\ pending = NoWrite
    /\ clock < MaxCreates
    /\ LET flat == FlattenDir(dir)
           lastId == LastSnapshotId(snaps)
           parent == LoadSnapshot(snaps, lastId)
           r == IF lastId # Null
                THEN ReconstructSnapshot(parent.id, snapshotCache, flatCache, snaps)
                ELSE [ok |-> TRUE, flat |-> EmptyFlat,
                      scache |-> snapshotCache, fcache |-> flatCache]
           newId == IF lastId # Null THEN lastId + 1 ELSE 1
           snapshot == [id |-> newId,
                        date |-> clock + 1,
                        parent |-> IF lastId # Null THEN parent.id ELSE Null,
                        changes |-> ClassifyChanges(flat, r.flat)]
       IN /\ snapshotCache' = r.scache
          /\ flatCache' = r.fcache
          /\ clock' = clock + 1
          /\ target' = EmptyTarget
          /\ IF r.ok
             THEN /\ blobs' = StoreFiles(blobs, dir, 1)
                  /\ snaps' = (newId :> snapshot) @@ snaps
                  /\ issued' = issued \cup {newId}
                  /\ current' = [id |-> newId, dir |-> dir]
                  /\ last' = [op |-> "create", id |-> newId, ok |-> TRUE, ret |-> ""]
             ELSE /\ UNCHANGED <<blobs, snaps, issued>>
                  /\ current' = NoCurrent
                  /\ last' = [op |-> "create", id |-> Null, ok |-> FALSE, ret |-> "ENOENT"]
    /\ size' = 0
    /\ UNCHANGED <<pending, blobSizeCache>>
    /\ listing' = <<>>
    /\ UNCHANGED <<writer, syncSnaps, syncBlobs>>

\* ------------------------------------------------------------------ prune
\* the existence test made on the id, which the sentinel carries too
SnapshotMissingById(snapshot) == snapshot.id = Null

\* the test of pruneSnapshot on the record it loaded: the sentinel's empty date
SnapshotMissing(snapshot) == snapshot.date = NoDate

\* getAllUsedBlobs() scanning the newest file only instead of every file
GetAllUsedBlobsNewest(disk) ==
    IF DOMAIN disk = {} THEN {}
    ELSE Range(BlobsInSnapshot(LoadSnapshot(disk, LastSnapshotId(disk))))

\* the for-await over getAllUsedBlobs(): the hashes blobsInSnapshot gives for
\* every file of the snapshot directory
GetAllUsedBlobs(disk) ==
    UNION {Range(BlobsInSnapshot(LoadSnapshot(disk, i))) : i \in DOMAIN disk}

\* the sweep with its test inverted: only a blob in usedBlobs is unlinked
SweepInverted(store, usedBlobs) ==
    [d \in {h \in DOMAIN store : h \notin usedBlobs} |-> store[d]]

\* the sweep over the shard directories: a blob outside usedBlobs is unlinked
Sweep(store, usedBlobs) ==
    [d \in {h \in DOMAIN store : h \in usedBlobs} |-> store[d]]

\* what the reference scan can find at the successor's file, whose rewrite
\* (saveSnapshot, not awaited) runs beside it: the old bytes, the file
\* truncated by the write's open, or the new bytes
Races(relink) == IF relink THEN {"stale", "torn", "landed"} ELSE {"none"}

\* pruneSnapshot(id)
PruneSnapshot(id, race) ==
    /\ pending = NoWrite
    /\ LET snapshot == LoadSnapshot(snaps, id)
           nextSnapshot == LoadSnapshot(snaps, id + 1)
           relink == nextSnapshot.parent = id
           rest == [i \in (DOMAIN snaps) \ {id} |-> snaps[i]]
           relinked == IF relink
                       THEN [rest EXCEPT ![id + 1].parent = snapshot.parent]
                       ELSE rest
           write == [phase |-> "queued", id |-> id + 1, parent |-> snapshot.parent]
       IN /\ race \in Races(relink /\ ~SnapshotMissing(snapshot) /\ id \in DOMAIN snaps)
          /\ IF SnapshotMissing(snapshot)
             THEN \* throw new Error("... does not exist.")
                  /\ UNCHANGED <<snaps, blobs, pending>>
                  /\ last' = [op |-> "prune", id |-> Null, ok |-> FALSE, ret |-> "NotFound"]
             ELSE IF id \notin DOMAIN snaps
             THEN \* unlinkSync throws ENOENT, after the successor's write was issued
                  /\ UNCHANGED <<snaps, blobs>>
                  /\ pending' = IF relink THEN write ELSE NoWrite
                  /\ last' = [op |-> "prune", id |-> id, ok |-> FALSE, ret |-> "ENOENT"]
             ELSE IF race = "torn"
             THEN \* JSON.parse of the truncated file throws out of the scan
                  /\ snaps' = rest
                  /\ UNCHANGED blobs
                  /\ pending' = [write EXCEPT !.phase = "opened"]
                  /\ last' = [op |-> "prune", id |-> id, ok |-> FALSE, ret |-> "SyntaxError"]
             ELSE /\ snaps' = IF race = "stale" THEN rest ELSE relinked
                  /\ pending' = IF race = "stale" THEN write ELSE NoWrite
                  /\ blobs' = Sweep(blobs, GetAllUsedBlobs(relinked))
                  /\ last' = [op |-> "prune", id |-> id, ok |-> TRUE, ret |-> ""]
    /\ target' = EmptyTarget
    /\ current' = NoCurrent
    /\ size' = 0
    /\ UNCHANGED <<snapshotCache, flatCache, clock, issued, blobSizeCache>>
    /\ listing' = <<>>
    /\ UNCHANGED <<writer, syncSnaps, syncBlobs>>

\* the pending writeFile opens its file with flag 'w': the file is truncated
WriteOpen ==
    /\ pending.phase = "queued"
    /\ pending' = [pending EXCEPT !.phase = "opened"]
    /\ UNCHANGED <<snaps, blobs, snapshotCache, flatCache, clock, issued,
                   target, current, blobSizeCache, size, last>>
    /\ UNCHANGED <<listing, writer, syncSnaps, syncBlobs>>

\* the pending writeFile writing a record stamped with the time of the write
WriteLandNewDate ==
    /\ pending.phase = "opened"
    /\ snaps' = [snaps EXCEPT ![pending.id].parent = pending.parent,
                              ![pending.id].date = clock + 1]
    /\ pending' = NoWrite
    /\ UNCHANGED <<blobs, snapshotCache, flatCache, clock, issued,
                   target, current, blobSizeCache, size, last>>
    /\ UNCHANGED <<listing, writer, syncSnaps, syncBlobs>>

\* the pending writeFile writing the successor with its own id as parent
WriteLandSelfParent ==
    /\ pending.phase = "opened"
    /\ snaps' = [snaps EXCEPT ![pending.id].parent = pending.id]
    /\ pending' = NoWrite
    /\ UNCHANGED <<blobs, snapshotCache, flatCache, clock, issued,
                   target, current, blobSizeCache, size, last>>
    /\ UNCHANGED <<listing, writer, syncSnaps, syncBlobs>>

\* the pending writeFile writes the relinked record and closes
WriteLand ==
    /\ pending.phase = "opened"
    /\ snaps' = [snaps EXCEPT ![pending.id].parent = pending.parent]
    /\ pending' = NoWrite
    /\ UNCHANGED <<blobs, snapshotCache, flatCache, clock, issued,
                   target, current, blobSizeCache, size, last>>
    /\ UNCHANGED <<listing, writer, syncSnaps, syncBlobs>>

\* ------------------------------------------------- reconstruct and restore
\* a call of reconstructSnapshot(id)
Reconstruct(id) ==
    /\ pending = NoWrite
    /\ LET r == ReconstructSnapshot(id, snapshotCache, flatCache, snaps) IN
       /\ snapshotCache' = r.scache
       /\ flatCache' = r.fcache
       /\ last' = [op |-> "reconstruct", id |-> Null, ok |-> r.ok,
                   ret |-> IF r.ok THEN "" ELSE "ENOENT"]
    /\ target' = EmptyTarget
    /\ current' = NoCurrent
    /\ size' = 0
    /\ UNCHANGED <<snaps, blobs, pending, clock, issued, blobSizeCache>>
    /\ listing' = <<>>
    /\ UNCHANGED <<writer, syncSnaps, syncBlobs>>

\* the loop of restoreSnapshot with the catch swallowing the error: an entry
\* whose blob cannot be read is passed over
RECURSIVE RestoreFilesSkipMissing(_, _, _, _)
RestoreFilesSkipMissing(flat, store, i, out) ==
    IF i > Len(PathOrder) THEN [ok |-> TRUE, out |-> out]
    ELSE LET p == PathOrder[i] IN
         IF p \notin DOMAIN flat \/ ~BlobExists(store, flat[p])
         THEN RestoreFilesSkipMissing(flat, store, i + 1, out)
         ELSE RestoreFilesSkipMissing(flat, store, i + 1, (p :> store[flat[p]]) @@ out)

\* the loop of restoreSnapshot writing the hash where the content belongs
RECURSIVE RestoreFilesDigests(_, _, _, _)
RestoreFilesDigests(flat, store, i, out) ==
    IF i > Len(PathOrder) THEN [ok |-> TRUE, out |-> out]
    ELSE LET p == PathOrder[i] IN
         IF p \notin DOMAIN flat THEN RestoreFilesDigests(flat, store, i + 1, out)
         ELSE IF ~BlobExists(store, flat[p]) THEN [ok |-> FALSE, out |-> out]
         ELSE RestoreFilesDigests(flat, store, i + 1, (p :> flat[p]) @@ out)

\* the loop of restoreSnapshot: loadContent(hash) and writeFile for each entry
\* of flat; a blob that cannot be read throws and ends the loop
RECURSIVE RestoreFiles(_, _, _, _)
RestoreFiles(flat, store, i, out) ==
    IF i > Len(PathOrder) THEN [ok |-> TRUE, out |-> out]
    ELSE LET p == PathOrder[i] IN
         IF p \notin DOMAIN flat THEN RestoreFiles(flat, store, i + 1, out)
         ELSE IF ~BlobExists(store, flat[p]) THEN [ok |-> FALSE, out |-> out]
         ELSE RestoreFiles(flat, store, i + 1, (p :> store[flat[p]]) @@ out)

\* restoreSnapshot(id, targetDir) into an empty targetDir
RestoreSnapshot(id) ==
    /\ pending = NoWrite
    /\ LET r == ReconstructSnapshot(id, snapshotCache, flatCache, snaps)
           w == RestoreFiles(r.flat, blobs, 1, EmptyTarget)
       IN /\ snapshotCache' = r.scache
          /\ flatCache' = r.fcache
          /\ target' = IF r.ok THEN w.out ELSE EmptyTarget
          /\ last' = [op |-> "restore", id |-> Null, ok |-> r.ok /\ w.ok,
                      ret |-> IF r.ok /\ w.ok THEN "" ELSE "ENOENT"]
    /\ current' = IF current.id = id THEN current ELSE NoCurrent
    /\ size' = 0
    /\ UNCHANGED <<snaps, blobs, pending, clock, issued, blobSizeCache>>
    /\ listing' = <<>>
    /\ UNCHANGED <<writer, syncSnaps, syncBlobs>>

\* a call of storeBlob(content)
StoreBlobCall(content) ==
    /\ pending = NoWrite
    /\ LET r == StoreBlob(blobs, content) IN
       /\ blobs' = r.store
       /\ last' = [op |-> "storeBlob", id |-> Null, ok |-> r.ok,
                   ret |-> IF r.ok THEN r.hash ELSE ""]
    /\ target' = EmptyTarget
    /\ current' = NoCurrent
    /\ size' = 0
    /\ UNCHANGED <<snaps, snapshotCache, flatCache, pending, clock, issued,
                   blobSizeCache>>
    /\ listing' = <<>>
    /\ UNCHANGED <<writer, syncSnaps, syncBlobs>>

\* new FileService(...) on the same database: a process of the CLI, or a new
\* instance in a test; its caches start empty
NewInstance ==
    /\ pending = NoWrite
    /\ snapshotCache' = NoSnapshots
    /\ flatCache' = NoFlats
    /\ blobSizeCache' = NoSizes
    /\ last' = [op |-> "new", id |-> Null, ok |-> TRUE, ret |-> ""]
    /\ target' = EmptyTarget
    /\ current' = NoCurrent
    /\ size' = 0
    /\ UNCHANGED <<snaps, blobs, pending, clock, issued>>
    /\ listing' = <<>>
    /\ UNCHANGED <<writer, syncSnaps, syncBlobs>>

\* ------------------------------------------------------------------ sizes
\* dbSize() with the return inside the loop over the shard directories
DbSizeFirstShard(store) ==
    IF DigestOrder[1] \in DOMAIN store THEN ByteLength(store[DigestOrder[1]]) ELSE 0

\* the loop of dbSize over the shard directories from the i-th on
RECURSIVE DbSizeFrom(_, _)
DbSizeFrom(store, i) ==
    IF i > Len(DigestOrder) THEN 0
    ELSE (IF DigestOrder[i] \in DOMAIN store
          THEN ByteLength(store[DigestOrder[i]]) ELSE 0)
         + DbSizeFrom(store, i + 1)

\* dbSize(): the stat sizes of the files of every shard directory, summed
DbSize(store) == DbSizeFrom(store, 1)

\* blobSize(hash): the cached size if any, else the stat size, which is then
\* cached; 0, not cached, when stat fails
BlobSize(hash, cache, store) ==
    IF hash \in DOMAIN cache
    THEN [size |-> cache[hash], cache |-> cache]
    ELSE IF BlobExists(store, hash)
    THEN [size |-> ByteLength(store[hash]),
          cache |-> (hash :> ByteLength(store[hash])) @@ cache]
    ELSE [size |-> 0, cache |-> cache]

\* total += await this.blobSize(key) over the hashes from the i-th on
RECURSIVE SumBlobSizes(_, _, _, _)
SumBlobSizes(hashes, i, cache, store) ==
    IF i > Len(hashes) THEN [size |-> 0, cache |-> cache]
    ELSE LET b == BlobSize(hashes[i], cache, store)
             rest == SumBlobSizes(hashes, i + 1, b.cache, store)
         IN [size |-> b.size + rest.size, cache |-> rest.cache]

\* hashes without the entries that repeat an earlier one
RECURSIVE FirstsOf(_, _)
FirstsOf(hashes, i) ==
    IF i > Len(hashes) THEN <<>>
    ELSE (IF \E j \in 1..(i - 1) : hashes[j] = hashes[i] THEN <<>> ELSE <<hashes[i]>>)
         \o FirstsOf(hashes, i + 1)

\* logicalSize counting a hash once however many paths have it
LogicalSizeOncePerHash(flat, cache, store) ==
    SumBlobSizes(FirstsOf(ValuesFrom(flat, 1), 1), 1, cache, store)

\* the loop of logicalSize over Object.values(flat)
LogicalSizeOf(flat, cache, store) == SumBlobSizes(ValuesFrom(flat, 1), 1, cache, store)

\* the while loop of physicalSize for one hash: some record up the parent
\* pointers from snap, each read by loadSnapshot, has the hash
RECURSIVE SeenInParents(_, _, _)
SeenInParents(hash, snap, disk) ==
    IF snap.parent = Null THEN FALSE
    ELSE LET parent == LoadSnapshot(disk, snap.parent) IN
         IF hash \in Range(BlobsInSnapshot(parent)) THEN TRUE
         ELSE SeenInParents(hash, parent, disk)

\* the for loop of physicalSize over blobsInSnapshot(snap) from the i-th on
RECURSIVE PhysicalFrom(_, _, _, _, _, _)
PhysicalFrom(hashes, i, snap, disk, cache, store) ==
    IF i > Len(hashes) THEN [size |-> 0, cache |-> cache]
    ELSE IF SeenInParents(hashes[i], snap, disk)
    THEN PhysicalFrom(hashes, i + 1, snap, disk, cache, store)
    ELSE LET b == BlobSize(hashes[i], cache, store)
             rest == PhysicalFrom(hashes, i + 1, snap, disk, b.cache, store)
         IN [size |-> b.size + rest.size, cache |-> rest.cache]

\* physicalSize(snapshotId)
PhysicalSize(id, disk, cache, store) ==
    LET snap == LoadSnapshot(disk, id) IN
    PhysicalFrom(BlobsInSnapshot(snap), 1, snap, disk, cache, store)

\* a call of dbSize()
DbSizeCall ==
    /\ pending = NoWrite
    /\ size' = DbSize(blobs)
    /\ last' = [op |-> "dbSize", id |-> Null, ok |-> TRUE, ret |-> ""]
    /\ target' = EmptyTarget
    /\ current' = NoCurrent
    /\ UNCHANGED <<snaps, blobs, snapshotCache, flatCache, pending, clock,
                   issued, blobSizeCache>>
    /\ listing' = <<>>
    /\ UNCHANGED <<writer, syncSnaps, syncBlobs>>

\* a call of blobSize(hash)
BlobSizeCall(hash) ==
    /\ pending = NoWrite
    /\ LET b == BlobSize(hash, blobSizeCache, blobs) IN
       /\ size' = b.size
       /\ blobSizeCache' = b.cache
    /\ last' = [op |-> "blobSize", id |-> Null, ok |-> TRUE, ret |-> ""]
    /\ target' = EmptyTarget
    /\ current' = NoCurrent
    /\ UNCHANGED <<snaps, blobs, snapshotCache, flatCache, pending, clock, issued>>
    /\ listing' = <<>>
    /\ UNCHANGED <<writer, syncSnaps, syncBlobs>>

\* a call of logicalSize(snapshotId); reconstructSnapshot's error is its own
LogicalSizeCall(id) ==
    /\ pending = NoWrite
    /\ LET r == ReconstructSnapshot(id, snapshotCache, flatCache, snaps)
           t == LogicalSizeOf(r.flat, blobSizeCache, blobs)
       IN /\ snapshotCache' = r.scache
          /\ flatCache' = r.fcache
          /\ size' = IF r.ok THEN t.size ELSE 0
          /\ blobSizeCache' = IF r.ok THEN t.cache ELSE blobSizeCache
          /\ last' = [op |-> "logicalSize", id |-> Null, ok |-> r.ok,
                      ret |-> IF r.ok THEN "" ELSE "ENOENT"]
    /\ target' = EmptyTarget
    /\ current' = NoCurrent
    /\ UNCHANGED <<snaps, blobs, pending, clock, issued>>
    /\ listing' = <<>>
    /\ UNCHANGED <<writer, syncSnaps, syncBlobs>>

\* a call of physicalSize(snapshotId)
PhysicalSizeCall(id) ==
    /\ pending = NoWrite
    /\ LET t == PhysicalSize(id, snaps, blobSizeCache, blobs) IN
       /\ size' = t.size
       /\ blobSizeCache' = t.cache
    /\ last' = [op |-> "physicalSize", id |-> Null, ok |-> TRUE, ret |-> ""]
    /\ target' = EmptyTarget
    /\ current' = NoCurrent
    /\ UNCHANGED <<snaps, blobs, snapshotCache, flatCache, pending, clock, issued>>
    /\ listing' = <<>>
    /\ UNCHANGED <<writer, syncSnaps, syncBlobs>>

\* ------------------------------------------------------------------- list
\* readdirSync of the snapshot directory: the ids of its files, in an order
\* the file system chooses (the greatest id first here)
RECURSIVE Readdir(_)
Readdir(ids) ==
    IF ids = {} THEN <<>>
    ELSE LET m == CHOOSE x \in ids : \A y \in ids : y <= x IN
         <<m>> \o Readdir(ids \ {m})

\* Array.sort((a, b) => a.id - b.id)
RECURSIVE SortById(_)
SortById(recs) ==
    IF recs = <<>> THEN <<>>
    ELSE LET i == CHOOSE k \in DOMAIN recs :
                     /\ \A j \in DOMAIN recs : recs[k].id <= recs[j].id
                     /\ \A j \in 1..(k - 1) : recs[j].id # recs[k].id
         IN <<recs[i]>> \o SortById(SubSeq(recs, 1, i - 1) \o SubSeq(recs, i + 1, Len(recs)))

\* listSnapshots() without its sort: the records in readdir's order
ListSnapshotsUnsorted(disk) ==
    LET files == Readdir(DOMAIN disk) IN
    [k \in DOMAIN files |-> [LoadSnapshot(disk, files[k]) EXCEPT !.id = files[k]]]

\* listSnapshots(): every file's record with the id of its file name, sorted
ListSnapshots(disk) ==
    LET files == Readdir(DOMAIN disk) IN
    SortById([k \in DOMAIN files |-> [LoadSnapshot(disk, files[k]) EXCEPT !.id = files[k]]])

\* a call of listSnapshots()
ListCall ==
    /\ pending = NoWrite
    /\ listing' = ListSnapshots(snaps)
    /\ last' = [op |-> "list", id |-> Null, ok |-> TRUE, ret |-> ""]
    /\ size' = 0
    /\ target' = EmptyTarget
    /\ current' = NoCurrent
    /\ UNCHANGED <<snaps, blobs, snapshotCache, flatCache, pending, clock,
                   issued, blobSizeCache, writer, syncSnaps, syncBlobs>>

\* ------------------------------------- createSnapshot of another process
\* createSnapshot(dirPath) in a second process, up to its first Promise.all:
\* the scan, lastSnapshotId(), the parent's flat state replayed from the
\* files, the new record stamped; a chain that cannot be replayed throws
WriterBegin(dir) ==
    /\ pending = NoWrite
    /\ writer.phase = "idle"
    /\ clock < MaxCreates
    /\ LET flat == FlattenDir(dir)
           lastId == LastSnapshotId(snaps)
           parent == LoadSnapshot(snaps, lastId)
           r == IF lastId # Null
                THEN Replay(snaps, parent.id)
                ELSE [ok |-> TRUE, flat |-> EmptyFlat,
                      scache |-> NoSnapshots, fcache |-> NoFlats]
       IN writer' = IF r.ok
                    THEN [phase |-> "read", dir |-> dir,
                          id |-> IF lastId # Null THEN lastId + 1 ELSE 1,
                          parent |-> IF lastId # Null THEN parent.id ELSE Null,
                          date |-> clock + 1,
                          changes |-> ClassifyChanges(flat, r.flat)]
                    ELSE NoWriter
    /\ clock' = clock + 1
    /\ UNCHANGED <<snaps, blobs, snapshotCache, flatCache, pending, issued,
                   target, current, blobSizeCache, size, listing,
                   syncSnaps, syncBlobs, last>>

\* the first Promise.all with its storeBlob calls left out
WriterStoreNothing ==
    /\ writer.phase = "read"
    /\ writer' = [writer EXCEPT !.phase = "stored"]
    /\ UNCHANGED <<snaps, blobs, snapshotCache, flatCache, pending, clock,
                   issued, target, current, blobSizeCache, size, listing,
                   syncSnaps, syncBlobs, last>>

\* the first Promise.all: storeBlob is synchronous, so every callback has
\* stored its blob when map returns
WriterStore ==
    /\ writer.phase = "read"
    /\ blobs' = StoreFiles(blobs, writer.dir, 1)
    /\ writer' = [writer EXCEPT !.phase = "stored"]
    /\ UNCHANGED <<snaps, snapshotCache, flatCache, pending, clock,
                   issued, target, current, blobSizeCache, size, listing,
                   syncSnaps, syncBlobs, last>>

\* saveSnapshot with the flag 'wx': a record that exists is left as it is
WriterSaveExclusive ==
    /\ writer.phase = "stored"
    /\ snaps' = IF writer.id \in DOMAIN snaps THEN snaps
                ELSE (writer.id :> [id |-> writer.id, date |-> writer.date,
                                    parent |-> writer.parent,
                                    changes |-> writer.changes]) @@ snaps
    /\ issued' = issued \cup {writer.id}
    /\ writer' = NoWriter
    /\ UNCHANGED <<blobs, snapshotCache, flatCache, pending, clock,
                   target, current, blobSizeCache, size, listing,
                   syncSnaps, syncBlobs, last>>

\* await this.saveSnapshot(snapshot): writeFile replaces whatever file has
\* the record's id
WriterSave ==
    /\ writer.phase = "stored"
    /\ snaps' = (writer.id :> [id |-> writer.id, date |-> writer.date,
                               parent |-> writer.parent,
                               changes |-> writer.changes]) @@ snaps
    /\ issued' = issued \cup {writer.id}
    /\ writer' = NoWriter
    /\ UNCHANGED <<blobs, snapshotCache, flatCache, pending, clock,
                   target, current, blobSizeCache, size, listing,
                   syncSnaps, syncBlobs, last>>

\* ------------------------------------------------- the synchronous variant
\* reconstructSnapshot(id) of the synchronous variant: loadSnapshot's record
\* (the sentinel for a missing file) applied on its parent's flat state
RECURSIVE ReconstructSync(_, _)
ReconstructSync(disk, id) ==
    LET snap == LoadSnapshot(disk, id)
        flat == IF snap.parent # Null THEN ReconstructSync(disk, snap.parent)
                ELSE EmptyFlat
    IN ApplyChanges(flat, snap.changes)

\* the loops of the synchronous createSnapshot: a path the parent has is
\* modified when hashContent(parentFlat[pathKey]), the hash of the parent's
\* hash, differs from the hash of the file
ClassifyChangesSync(flat, parentFlat) ==
    LET added == {p \in DOMAIN flat : p \notin DOMAIN parentFlat}
        modified == {p \in DOMAIN flat :
                        p \in DOMAIN parentFlat /\ HashContent(parentFlat[p]) # flat[p]}
    IN [added |-> [p \in added |-> flat[p]],
        modified |-> [p \in modified |-> flat[p]],
        deleted |-> {p \in DOMAIN parentFlat : p \notin DOMAIN flat}]

\* storeBlob of the synchronous variant: written unless the file exists
StoreBlobSync(store, content) ==
    IF BlobExists(store, HashContent(content)) THEN store
    ELSE (HashContent(content) :> content) @@ store

\* the storeBlob calls of the synchronous createSnapshot, one per path
RECURSIVE StoreFilesSync(_, _, _)
StoreFilesSync(store, dir, i) ==
    IF i > Len(PathOrder) THEN store
    ELSE IF PathOrder[i] \in DOMAIN dir
    THEN StoreFilesSync(StoreBlobSync(store, dir[PathOrder[i]]), dir, i + 1)
    ELSE StoreFilesSync(store, dir, i + 1)

\* the two databases have been given the same calls
InStep == DOMAIN syncSnaps = DOMAIN snaps /\ pending = NoWrite

\* createSnapshot(dirPath) of the synchronous variant on its own database,
\* given the tree the asynchronous variant was just given
SyncCreateSnapshot ==
    /\ pending = NoWrite
    /\ last.op = "create" /\ last.ok
    /\ DOMAIN syncSnaps # DOMAIN snaps
    /\ LET dir == current.dir
           flat == FlattenDir(dir)
           lastId == LastSnapshotId(syncSnaps)
           parent == LoadSnapshot(syncSnaps, lastId)
           parentFlat == IF lastId # Null THEN ReconstructSync(syncSnaps, parent.id)
                         ELSE EmptyFlat
           newId == IF lastId # Null THEN lastId + 1 ELSE 1
           snapshot == [id |-> newId,
                        date |-> clock,
                        parent |-> IF lastId # Null THEN parent.id ELSE Null,
                        changes |-> ClassifyChangesSync(flat, parentFlat)]
       IN /\ syncBlobs' = StoreFilesSync(syncBlobs, dir, 1)
          /\ syncSnaps' = (newId :> snapshot) @@ syncSnaps
    /\ UNCHANGED <<snaps, blobs, snapshotCache, flatCache, pending, clock,
                   issued, target, current, blobSizeCache, size, listing,
                   writer, last>>

\* pruneSnapshot(id) of the synchronous variant, given the id the
\* asynchronous variant was just given
SyncPruneSnapshot ==
    /\ pending = NoWrite
    /\ last.op = "prune" /\ last.id # Null
    /\ last.id \in DOMAIN syncSnaps
    /\ LET id == last.id
           snapshot == LoadSnapshot(syncSnaps, id)
           nextSnapshot == LoadSnapshot(syncSnaps, id + 1)
           rest == [i \in (DOMAIN syncSnaps) \ {id} |-> syncSnaps[i]]
           relinked == IF nextSnapshot.parent = id
                       THEN [rest EXCEPT ![id + 1].parent = snapshot.parent]
                       ELSE rest
       IN /\ syncSnaps' = relinked
          /\ syncBlobs' = Sweep(syncBlobs,
                                UNION {Range(BlobsInSnapshot(relinked[i])) :
                                         i \in DOMAIN relinked})
    /\ UNCHANGED <<snaps, blobs, snapshotCache, flatCache, pending, clock,
                   issued, target, current, blobSizeCache, size, listing,
                   writer, last>>

\* the ids a caller may pass: every id ever possible and one that never exists
CallIds == 1..(MaxCreates + 1)

Next ==
    \/ \E dir \in Dirs : CreateSnapshot(dir)
    \/ \E id \in CallIds : \E race \in {"none", "stale", "torn", "landed"} :
           PruneSnapshot(id, race)
    \/ WriteOpen
    \/ WriteLand
    \/ \E id \in CallIds : Reconstruct(id)
    \/ \E id \in CallIds : RestoreSnapshot(id)
    \/ \E content \in Contents : StoreBlobCall(content)
    \/ NewInstance

Spec == Init /\ [][Next]_vars

\* the calls that write the database, on one instance or several
NextDisk ==
    \/ \E dir \in Dirs : CreateSnapshot(dir)
    \/ \E id \in CallIds : \E race \in {"none", "stale", "torn", "landed"} :
           PruneSnapshot(id, race)
    \/ WriteOpen
    \/ WriteLand
    \/ \E content \in Contents : StoreBlobCall(content)
    \/ NewInstance

SpecDisk == Init /\ [][NextDisk]_vars

\* a history without pruneSnapshot
NextNoPrune ==
    \/ \E dir \in Dirs : CreateSnapshot(dir)
    \/ \E id \in CallIds : Reconstruct(id)
    \/ \E id \in CallIds : RestoreSnapshot(id)
    \/ \E content \in Contents : StoreBlobCall(content)
    \/ NewInstance

SpecNoPrune == Init /\ [][NextNoPrune]_vars

\* the size queries on a database that createSnapshot alone writes
NextSizes ==
    \/ \E dir \in Dirs : CreateSnapshot(dir)
    \/ DbSizeCall
    \/ \E hash \in Digests : BlobSizeCall(hash)
    \/ \E id \in CallIds : LogicalSizeCall(id)
    \/ \E id \in CallIds : PhysicalSizeCall(id)
    \/ NewInstance

SpecSizes == Init /\ [][NextSizes]_vars

\* the size queries on a database that is pruned too
NextSizesPrune ==
    \/ \E dir \in Dirs : CreateSnapshot(dir)
    \/ \E id \in CallIds : \E race \in {"none", "stale", "torn", "landed"} :
           PruneSnapshot(id, race)
    \/ WriteOpen
    \/ WriteLand
    \/ DbSizeCall
    \/ \E hash \in Digests : BlobSizeCall(hash)
    \/ \E id \in CallIds : LogicalSizeCall(id)
    \/ \E id \in CallIds : PhysicalSizeCall(id)
    \/ NewInstance

SpecSizesPrune == Init /\ [][NextSizesPrune]_vars

\* restores on a database that is pruned while it holds every record created
NextRestore ==
    \/ \E dir \in Dirs : CreateSnapshot(dir)
    \/ \E id \in CallIds : \E race \in {"none", "stale", "torn", "landed"} :
           DOMAIN snaps = issued /\ PruneSnapshot(id, race)
    \/ WriteOpen
    \/ WriteLand
    \/ \E id \in CallIds : RestoreSnapshot(id)
    \/ NewInstance

SpecRestore == Init /\ [][NextRestore]_vars

\* listings of a database that is created and pruned
NextList ==
    \/ \E dir \in Dirs : CreateSnapshot(dir)
    \/ \E id \in CallIds : \E race \in {"none", "stale", "torn", "landed"} :
           PruneSnapshot(id, race)
    \/ WriteOpen
    \/ WriteLand
    \/ ListCall
    \/ NewInstance

SpecList == Init /\ [][NextList]_vars

\* two processes creating snapshots in one database, the second step by step
NextWriters ==
    \/ \E dir \in Dirs : CreateSnapshot(dir)
    \/ \E dir \in Dirs : WriterBegin(dir)
    \/ WriterStore
    \/ WriterSave
    \/ NewInstance

SpecWriters == Init /\ [][NextWriters]_vars

\* the two variants given the same calls, each on its own database
NextVariants ==
    \/ \E dir \in Dirs : InStep /\ CreateSnapshot(dir)
    \/ \E id \in CallIds : \E race \in {"none", "stale", "torn", "landed"} :
           InStep /\ PruneSnapshot(id, race)
    \/ WriteOpen
    \/ WriteLand
    \/ SyncCreateSnapshot
    \/ SyncPruneSnapshot

SpecVariants == Init /\ [][NextVariants]_vars

\* ================================================================ claims
\* the digests a record's delta names, read off its two maps
Referenced(rec) ==
    {rec.changes.added[p] : p \in DOMAIN rec.changes.added}
    \cup {rec.changes.modified[p] : p \in DOMAIN rec.changes.modified}

\* every createSnapshot so far succeeded and every record it wrote is still
\* there: the store was built by createSnapshot calls alone
BuiltByCreates ==
    /\ DOMAIN snaps = issued
    /\ clock = Cardinality(issued)
    /\ pending = NoWrite

Races4 == {"none", "stale", "torn", "landed"}

\* C1 (as claimed): in a store built by createSnapshot calls, when
\* pruneSnapshot(id) of an existing id has completed and its rewrite of the
\* successor is on disk, every remaining snapshot j reconstructs (from the
\* files) to the flat state it had before the prune, and every digest of that
\* flat state has its blob.
C1_PruneKeepsFlatStates ==
    [][\A id \in CallIds : \A race \in Races4 :
          (PruneSnapshot(id, race) /\ BuiltByCreates /\ last'.ok /\ pending' = NoWrite)
          => \A j \in (DOMAIN snaps) \ {id} :
                LET before == Replay(snaps, j)
                    after == Replay(snaps', j)
                IN /\ after.ok
                   /\ after.flat = before.flat
                   /\ \A p \in DOMAIN after.flat : BlobExists(blobs', after.flat[p])]_vars

\* C2 (as claimed): restoreSnapshot(S.id, T) right after S = createSnapshot(D)
\* succeeds and leaves in the empty T exactly D's paths with D's contents,
\* whatever calls the instance served before.
C2_RoundTrip ==
    (last.op = "restore" /\ current.id # Null)
    => (last.ok /\ target = current.dir)

\* C3 (as claimed): createSnapshot(D) adds exactly one record, leaves every
\* earlier record and its reconstructed flat state as they were, deletes no
\* blob, and the new snapshot reconstructs, on the instance that made it, to
\* the scan of D.
C3_CreateFrame ==
    [][\A dir \in Dirs :
          CreateSnapshot(dir)
          => /\ \E n \in Ids :
                   /\ n \notin DOMAIN snaps
                   /\ DOMAIN snaps' = (DOMAIN snaps) \cup {n}
                   /\ LET r == ReconstructSnapshot(n, snapshotCache', flatCache', snaps')
                      IN r.ok /\ r.flat = FlattenDir(dir)
             /\ \A j \in DOMAIN snaps :
                   /\ snaps'[j] = snaps[j]
                   /\ Replay(snaps', j).ok = Replay(snaps, j).ok
                   /\ Replay(snaps', j).flat = Replay(snaps, j).flat
             /\ \A d \in DOMAIN blobs : d \in DOMAIN blobs' /\ blobs'[d] = blobs[d]]_vars

\* C4: in a history without prune, with P the flat state of the greatest-id
\* snapshot (empty if none) and N the scan of the tree, createSnapshot writes
\* the delta added = N outside P, modified = N on P where the digests differ,
\* deleted = the paths of P outside N; a path with the same digest is in none
\* of the three, and a path removed from the tree is absent from the new
\* snapshot's reconstruction.
C4_DeltaClassification ==
    [][\A dir \in Dirs :
          CreateSnapshot(dir)
          => LET lastId == LastSnapshotId(snaps)
                 P == IF lastId = Null THEN EmptyFlat ELSE Replay(snaps, lastId).flat
                 N == FlattenDir(dir)
                 new == snaps'[LastSnapshotId(snaps')]
                 ch == new.changes
             IN /\ last'.ok
                /\ LastSnapshotId(snaps') \notin DOMAIN snaps
                /\ DOMAIN ch.added = {p \in DOMAIN N : p \notin DOMAIN P}
                /\ \A p \in DOMAIN ch.added : ch.added[p] = N[p]
                /\ DOMAIN ch.modified =
                       {p \in DOMAIN N : p \in DOMAIN P /\ N[p] # P[p]}
                /\ \A p \in DOMAIN ch.modified : ch.modified[p] = N[p]
                /\ ch.deleted = {p \in DOMAIN P : p \notin DOMAIN N}
                /\ \A p \in Paths :
                      (p \in DOMAIN N /\ p \in DOMAIN P /\ N[p] = P[p])
                      => (p \notin DOMAIN ch.added /\ p \notin DOMAIN ch.modified
                          /\ p \notin ch.deleted)
                /\ \A p \in (DOMAIN P) \ (DOMAIN N) :
                      p \notin DOMAIN Replay(snaps', new.id).flat]_vars

\* C4's case: a createSnapshot has just written a delta that modifies one
\* path and deletes another
C4_Witness ==
    /\ last.op = "create" /\ last.ok
    /\ last.id \in DOMAIN snaps
    /\ snaps[last.id].changes.modified # EmptyFlat
    /\ snaps[last.id].changes.deleted # {}

\* C5 (as claimed): the id createSnapshot gives a new snapshot was given to no
\* earlier snapshot, pruned ones included.
C5_IdsNeverReused ==
    [][\A dir \in Dirs :
          (CreateSnapshot(dir) /\ last'.ok) => last'.id \notin issued]_vars

\* C6 (as claimed): between calls, with snapshots left, exactly one has parent
\* null, every other parent is a surviving id, and no id is the parent of two.
C6_ChainShape ==
    (pending = NoWrite /\ DOMAIN snaps # {})
    => /\ Cardinality({i \in DOMAIN snaps : snaps[i].parent = Null}) = 1
       /\ \A i \in DOMAIN snaps :
             snaps[i].parent # Null => snaps[i].parent \in DOMAIN snaps
       /\ \A i, j \in DOMAIN snaps :
             (i # j /\ snaps[i].parent # Null) => snaps[i].parent # snaps[j].parent

\* C7: every digest in the added or modified map of a surviving record has
\* its blob in the store.
C7_NoDanglingDigest ==
    \A i \in DOMAIN snaps :
        /\ \A p \in DOMAIN snaps[i].changes.added :
              snaps[i].changes.added[p] \in DOMAIN blobs
        /\ \A p \in DOMAIN snaps[i].changes.modified :
              snaps[i].changes.modified[p] \in DOMAIN blobs

\* C7's case: a prune has just swept a blob away while a surviving record
\* still names digests in its modified map
C7_Witness ==
    /\ last.op = "prune" /\ last.ok
    /\ DOMAIN blobs # Digests
    /\ \E i \in DOMAIN snaps : snaps[i].changes.modified # EmptyFlat

\* C8: when pruneSnapshot(id) completes, the stored blobs are those stored
\* before whose digest a remaining record's added or modified map names:
\* nothing unreferenced stays, nothing referenced goes, no blob's bytes change.
C8_SweepExact ==
    [][\A id \in CallIds : \A race \in Races4 :
          (last'.op = "prune" /\ last'.ok /\ last'.id = id /\ PruneSnapshot(id, race))
          => /\ DOMAIN blobs' =
                  {d \in DOMAIN blobs : \E i \in DOMAIN snaps' : d \in Referenced(snaps'[i])}
             /\ \A d \in DOMAIN blobs' : blobs'[d] = blobs[d]]_vars

\* C8's case: a prune has completed, a record remains, and the store holds
\* some but not all digests
C8_Witness ==
    /\ last.op = "prune" /\ last.ok
    /\ DOMAIN snaps # {}
    /\ DOMAIN blobs # {}
    /\ DOMAIN blobs # Digests

\* C9: pruneSnapshot(id) of an id without a file, never created or already
\* pruned, ends in the "does not exist" error, issues no write, and leaves
\* every record and every blob as it was.
C9_PruneMissingFails ==
    [][\A id \in CallIds : \A race \in Races4 :
          (last'.op = "prune" /\ id \notin DOMAIN snaps /\ PruneSnapshot(id, race))
          => /\ ~last'.ok
             /\ last'.ret = "NotFound"
             /\ snaps' = snaps
             /\ blobs' = blobs
             /\ pending' = NoWrite]_vars

\* C9's case: a prune has just failed for want of the record, in a store that
\* holds records and has lost one to an earlier prune
C9_Witness ==
    /\ last.op = "prune" /\ ~last.ok /\ last.ret = "NotFound"
    /\ DOMAIN snaps # {}
    /\ \E i \in issued : i \notin DOMAIN snaps

\* C10: storeBlob(content) returns the digest of content; a digest already
\* stored leaves the store as it was; afterwards the digest holds exactly the
\* content, no other blob changed, and storing the content again changes
\* nothing.
C10_StoreBlobIdempotent ==
    [][\A content \in Contents :
          StoreBlobCall(content)
          => LET h == HashContent(content) IN
             /\ last'.ok
             /\ last'.ret = h
             /\ (h \in DOMAIN blobs => blobs' = blobs)
             /\ DOMAIN blobs' = (DOMAIN blobs) \cup {h}
             /\ blobs'[h] = content
             /\ \A d \in DOMAIN blobs : blobs'[d] = blobs[d]
             /\ StoreBlob(blobs', content).ok
             /\ StoreBlob(blobs', content).store = blobs']_vars

\* C10's case: storeBlob has just been given content whose digest a surviving
\* snapshot already names, so the blob was there
C10_Witness ==
    /\ last.op = "storeBlob" /\ last.ok
    /\ \E i \in DOMAIN snaps : last.ret \in Referenced(snaps[i])

\* size(digest): the byte length of the content with that digest
SizeOfDigest(d) == ByteLength(CHOOSE c \in Contents : HashContent(c) = d)

\* the sum of size(digest) over a set of digests, each counted once
RECURSIVE SumSizes(_)
SumSizes(S) ==
    IF S = {} THEN 0
    ELSE LET d == CHOOSE x \in S : TRUE IN SizeOfDigest(d) + SumSizes(S \ {d})

\* the ids reached from id by following parent pointers through the records
RECURSIVE Ancestors(_, _)
Ancestors(disk, id) ==
    IF id \notin DOMAIN disk \/ disk[id].parent = Null THEN {}
    ELSE {disk[id].parent} \cup Ancestors(disk, disk[id].parent)

\* the digests in the added and modified maps of id's ancestors
AncestorDigests(disk, id) ==
    UNION {Referenced(disk[j]) : j \in Ancestors(disk, id) \cap DOMAIN disk}

\* the sum over the paths P of flat of the size of the blob the path maps to
RECURSIVE SumOverPaths(_, _, _)
SumOverPaths(flat, P, store) ==
    IF P = {} THEN 0
    ELSE LET p == CHOOSE x \in P : TRUE IN
         ByteLength(store[flat[p]]) + SumOverPaths(flat, P \ {p}, store)

\* the digests of every content some snapshot holds
EverSnapshotted ==
    UNION {{Replay(snaps, i).flat[p] : p \in DOMAIN Replay(snaps, i).flat} :
             i \in DOMAIN snaps}

\* C11 (as claimed): physicalSize(id) of a snapshot is the sum of
\* size(digest) over the digests of its own added and modified maps that no
\* ancestor's added or modified map has, each such digest counted once.
C11_PhysicalSizeDistinct ==
    [][\A id \in CallIds :
          (PhysicalSizeCall(id) /\ id \in DOMAIN snaps)
          => size' = SumSizes(Referenced(snaps[id]) \ AncestorDigests(snaps, id))]_vars

C13_DbSizeUniqueBytes ==
    [][DbSizeCall
          => /\ size' = SumSizes(EverSnapshotted)
             /\ DOMAIN blobs = EverSnapshotted]_vars

\* C13's case: dbSize has just returned the size of both contents, one of
\* which two snapshots hold
C13_Witness ==
    /\ last.op = "dbSize"
    /\ size = SumSizes(Digests)
    /\ \E i, j \in DOMAIN snaps :
          /\ i # j
          /\ \E p \in DOMAIN Replay(snaps, i).flat :
                \E q \in DOMAIN Replay(snaps, j).flat :
                    Replay(snaps, i).flat[p] = Replay(snaps, j).flat[q]

\* C14: in every record createSnapshot wrote, a path is in at most one of
\* changes.added, changes.modified and changes.deleted.
C14_DeltaDisjoint ==
    \A i \in DOMAIN snaps :
        LET ch == snaps[i].changes IN
        /\ (DOMAIN ch.added) \cap (DOMAIN ch.modified) = {}
        /\ (DOMAIN ch.added) \cap ch.deleted = {}
        /\ (DOMAIN ch.modified) \cap ch.deleted = {}

\* C14's case: a record whose delta adds one path and modifies another
C14_Witness ==
    \E i \in DOMAIN snaps :
        /\ snaps[i].changes.added # EmptyFlat
        /\ snaps[i].changes.modified # EmptyFlat

\* C15: a step that changes a surviving record leaves its id, date and
\* changes alone, and changes its parent only by the rewrite of a
\* pruneSnapshot(id) whose id was that parent: in the call's own step, or when
\* the write the call issued lands; the new parent is the one id had.
C15_SnapshotImmutable ==
    [][\A i \in (DOMAIN snaps) \cap (DOMAIN snaps') :
          snaps'[i] # snaps[i]
          => /\ snaps'[i].id = snaps[i].id
             /\ snaps'[i].date = snaps[i].date
             /\ snaps'[i].changes = snaps[i].changes
             /\ \/ \E id \in CallIds : \E race \in Races4 :
                      /\ PruneSnapshot(id, race)
                      /\ snaps[i].parent = id
                      /\ snaps'[i].parent = snaps[id].parent
                \/ /\ WriteLand
                   /\ pending.id = i
                   /\ last.op = "prune"
                   /\ snaps[i].parent = last.id
                   /\ snaps'[i].parent = pending.parent]_vars

\* C15's case: a prune has completed and a record that is not the first
\* created has lost its parent to it, with its delta intact
C15_Witness ==
    /\ last.op = "prune" /\ last.ok
    /\ pending = NoWrite
    /\ \E i \in DOMAIN snaps :
          /\ i > 1
          /\ snaps[i].parent = Null
          /\ snaps[i].changes # EmptyChanges

\* C16: restoreSnapshot(id, T) ends in an error whenever the flat state it
\* reconstructs for id has a digest without a blob in the store.
C16_RestoreMissingBlobFails ==
    [][\A id \in CallIds :
          (/\ last'.op = "restore"
           /\ RestoreSnapshot(id)
           /\ LET r == ReconstructSnapshot(id, snapshotCache, flatCache, snaps) IN
              r.ok /\ \E p \in DOMAIN r.flat : ~BlobExists(blobs, r.flat[p]))
          => ~last'.ok]_vars

\* C16's case: a restore has just failed after writing a file: its flat state
\* was there, and a later entry's blob was not
C16_Witness ==
    /\ last.op = "restore" /\ ~last.ok
    /\ target # EmptyTarget

\* C17 (as claimed): when pruneSnapshot(id) of an existing id has completed
\* and its rewrite is on disk, every surviving record whose parent was id has
\* the parent id had.
C17_PruneSplices ==
    [][\A id \in CallIds : \A race \in Races4 :
          (PruneSnapshot(id, race) /\ id \in DOMAIN snaps /\ last'.ok
           /\ pending' = NoWrite)
          => \A s \in (DOMAIN snaps) \ {id} :
                snaps[s].parent = id => snaps'[s].parent = snaps[id].parent]_vars

\* C18 (as claimed): reconstructSnapshot(id) of a surviving id returns, on
\* any instance, what a new instance replays from the persisted chain.
C18_CacheCoherent ==
    [][\A id \in CallIds :
          (Reconstruct(id) /\ id \in DOMAIN snaps)
          => LET r == ReconstructSnapshot(id, snapshotCache, flatCache, snaps)
                 f == Replay(snaps, id)
             IN /\ r.ok = f.ok
                /\ f.ok => r.flat = f.flat]_vars

\* C19 (as claimed): reconstructSnapshot(id) of an id without a persisted
\* record, never created or pruned earlier, ends in an error.
C19_ReconstructMissingFails ==
    [][\A id \in CallIds :
          (Reconstruct(id) /\ id \notin DOMAIN snaps) => ~last'.ok]_vars

\* C20 (as claimed): blobSize(h) returns 0 for a digest h whose blob is not
\* in the store, one deleted by an earlier prune included.
C20_MissingBlobIsZero ==
    [][\A h \in Digests :
          (BlobSizeCall(h) /\ ~BlobExists(blobs, h)) => size' = 0]_vars

\* the greatest of a non-empty set of ids
MaxOf(S) == CHOOSE m \in S : \A k \in S : k <= m

\* the sum of physicalSize(i) over the ids of S
RECURSIVE SumPhysical(_)
SumPhysical(S) ==
    IF S = {} THEN 0
    ELSE LET i == CHOOSE x \in S : TRUE IN
         PhysicalSize(i, snaps, NoSizes, blobs).size + SumPhysical(S \ {i})

\* C21: a createSnapshot that succeeds gives the new snapshot the greatest
\* persisted id plus 1, or 1 without snapshots, and that greatest id, or
\* null, as parent; the new id is greater than every surviving id.
C21_IdAndParent ==
    [][\A dir \in Dirs :
          (last'.op = "create" /\ CreateSnapshot(dir) /\ last'.ok)
          => LET n == last'.id IN
             /\ n = IF DOMAIN snaps = {} THEN 1 ELSE MaxOf(DOMAIN snaps) + 1
             /\ n \in DOMAIN snaps'
             /\ snaps'[n].id = n
             /\ snaps'[n].parent = IF DOMAIN snaps = {} THEN Null ELSE MaxOf(DOMAIN snaps)
             /\ \A j \in DOMAIN snaps : j < n]_vars

\* C21's case: a create has just followed a prune, so the greatest id is no
\* longer the number of records
C21_Witness ==
    /\ last.op = "create" /\ last.ok
    /\ last.id \in DOMAIN snaps
    /\ Cardinality(DOMAIN snaps) < last.id
    /\ snaps[last.id].parent # Null

\* C22: in a createSnapshot taken step by step, the record is written in a
\* state in which every blob of its added and modified maps is stored, and
\* after every step each persisted record has all its blobs.
C22_BlobsBeforeRecord ==
    [][/\ (writer.phase = "stored" /\ WriterSave)
           => \A d \in Referenced(snaps'[writer.id]) : BlobExists(blobs, d)
       /\ \A i \in DOMAIN snaps' :
             \A d \in Referenced(snaps'[i]) : BlobExists(blobs', d)]_vars

\* C22's case: the step-by-step createSnapshot has stored a blob the store
\* did not have for a record that is not written yet
C22_Witness ==
    /\ writer.phase = "stored"
    /\ writer.id \notin DOMAIN snaps
    /\ Referenced(writer) # {}
    /\ \A i \in DOMAIN snaps : Referenced(writer) \cap Referenced(snaps[i]) = {}

\* C23: when a createSnapshot persists its record after another one, which
\* read the same lastSnapshotId(), has persisted its own, the id it allocated
\* is that of the other's record, which its saveSnapshot replaces: no record
\* is added and the earlier one is lost.
C23_SameIdOverwrites ==
    [][(writer.phase = "stored" /\ WriterSave
        /\ LastSnapshotId(snaps) # writer.parent)
       => /\ writer.id \in DOMAIN snaps
          /\ DOMAIN snaps' = DOMAIN snaps
          /\ snaps'[writer.id] # snaps[writer.id]
          /\ snaps'[writer.id].date = writer.date
          /\ snaps'[writer.id].changes = writer.changes]_vars

\* C23's case: both createSnapshot calls have returned, this process was
\* given id 1 at the second tick of the clock, and the only record is the one
\* the other process stamped at the first
C23_Witness ==
    /\ writer.phase = "idle"
    /\ last.op = "create" /\ last.ok /\ last.id = 1
    /\ clock > Cardinality(DOMAIN snaps)
    /\ DOMAIN snaps = {1}
    /\ snaps[1].date < clock

\* C24: restoreSnapshot(id, T) changes no record and no blob and writes only
\* paths of the flat state it reconstructs for id, each with the content of
\* the blob its digest names; when it succeeds it has written all of them.
C24_RestoreFrame ==
    [][\A id \in CallIds :
          (last'.op = "restore" /\ RestoreSnapshot(id))
          => LET r == ReconstructSnapshot(id, snapshotCache, flatCache, snaps) IN
             /\ snaps' = snaps
             /\ blobs' = blobs
             /\ DOMAIN target' \subseteq DOMAIN r.flat
             /\ \A p \in DOMAIN target' :
                   /\ BlobExists(blobs, r.flat[p])
                   /\ target'[p] = blobs[r.flat[p]]
             /\ last'.ok => (r.ok /\ DOMAIN target' = DOMAIN r.flat)]_vars

\* C24's case: a restore has just written both paths, with different contents
C24_Witness ==
    /\ last.op = "restore" /\ last.ok
    /\ DOMAIN target = Paths
    /\ target["a.txt"] # target["b.txt"]

\* C25: listSnapshots returns the surviving records, each once, in ascending
\* id order, which is the order of their creation dates.
C25_ListInCreationOrder ==
    [][ListCall
       => /\ Len(listing') = Cardinality(DOMAIN snaps)
          /\ {listing'[k].id : k \in DOMAIN listing'} = DOMAIN snaps
          /\ \A k \in DOMAIN listing' : listing'[k] = snaps[listing'[k].id]
          /\ \A k \in 1..(Len(listing') - 1) :
                /\ listing'[k].id < listing'[k + 1].id
                /\ listing'[k].date < listing'[k + 1].date]_vars

\* C25's case: a listing of two records or more with a pruned id between two
\* of them
C25_Witness ==
    /\ last.op = "list"
    /\ Len(listing) >= 2
    /\ listing[2].id > listing[1].id + 1

\* C26: createSnapshot of an empty directory on a store without snapshots
\* writes the record with id 1, parent null and an empty added, modified and
\* deleted, and stores no blob.
C26_EmptyFirstSnapshot ==
    [][\A dir \in Dirs :
          (last'.op = "create" /\ CreateSnapshot(dir)
           /\ DOMAIN dir = {} /\ DOMAIN snaps = {})
          => /\ last'.ok
             /\ DOMAIN snaps' = {1}
             /\ snaps'[1].id = 1
             /\ snaps'[1].parent = Null
             /\ DOMAIN snaps'[1].changes.added = {}
             /\ DOMAIN snaps'[1].changes.modified = {}
             /\ snaps'[1].changes.deleted = {}
             /\ blobs' = blobs]_vars

\* C26's case: the only record is the one a createSnapshot of the empty tree
\* has just written
C26_Witness ==
    /\ last.op = "create" /\ last.ok
    /\ last.id = 1
    /\ current.id = 1 /\ DOMAIN current.dir = {}
    /\ DOMAIN snaps = {1}

\* C27 (as claimed): a pruneSnapshot(id) that rewrites its successor returns
\* with the rewrite on disk, its scan having read the rewritten record.
C27_RewriteBeforeReads ==
    [][\A id \in CallIds : \A race \in Races4 :
          (last'.op = "prune" /\ PruneSnapshot(id, race) /\ id \in DOMAIN snaps
           /\ LoadSnapshot(snaps, id + 1).parent = id)
          => /\ last'.ok
             /\ pending' = NoWrite
             /\ snaps'[id + 1].parent = snaps[id].parent]_vars

\* C28: every surviving record, and every record an instance has cached, has
\* parent null or a parent smaller than its id.
C28_ParentsDecrease ==
    /\ \A i \in DOMAIN snaps :
          snaps[i].parent = Null \/ snaps[i].parent < snaps[i].id
    /\ \A i \in DOMAIN snaps : snaps[i].id = i
    /\ \A i \in DOMAIN snapshotCache :
          snapshotCache[i].parent = Null \/ snapshotCache[i].parent < i

\* C28's case: a record whose parent is not the id before its own, a prune
\* having rewritten it
C28_Witness ==
    \E i \in DOMAIN snaps :
        /\ snaps[i].parent # Null
        /\ snaps[i].parent < i - 1

\* C29 (as claimed): in a store built by createSnapshot calls alone, dbSize()
\* is the sum of physicalSize(id) over all snapshots.
C29_PhysicalSumsToDbSize ==
    [][DbSizeCall => size' = SumPhysical(DOMAIN snaps)]_vars

\* C30 (as claimed): given the same trees, and then the same prunes, the
\* synchronous variant has persisted the deltas the asynchronous variant
\* has, and its snapshots reconstruct to the same flat states.
C30_VariantsAgree ==
    InStep
    => \A i \in DOMAIN snaps :
          /\ syncSnaps[i].changes = snaps[i].changes
          /\ ReconstructSync(syncSnaps, i) = Replay(snaps, i).flat

\* C31: in a store built by createSnapshot calls alone, pruneSnapshot of the
\* greatest id succeeds with no write left behind, removes that record only,
\* and leaves every remaining snapshot its record, its flat state (replayed
\* from the files, and as this instance reconstructs it) and every blob that
\* flat state names.
C31_PruneNewestLossless ==
    [][\A id \in CallIds : \A race \in Races4 :
          (last'.op = "prune" /\ BuiltByCreates
           /\ id \in DOMAIN snaps /\ id = MaxOf(DOMAIN snaps)
           /\ PruneSnapshot(id, race))
          => /\ last'.ok
             /\ pending' = NoWrite
             /\ DOMAIN snaps' = (DOMAIN snaps) \ {id}
             /\ \A j \in DOMAIN snaps' :
                   LET before == Replay(snaps, j)
                       after == Replay(snaps', j)
                       cachedBefore == ReconstructSnapshot(j, snapshotCache, flatCache, snaps)
                       cachedAfter == ReconstructSnapshot(j, snapshotCache', flatCache', snaps')
                   IN /\ snaps'[j] = snaps[j]
                      /\ before.ok /\ after.ok
                      /\ after.flat = before.flat
                      /\ cachedAfter.ok
                      /\ cachedAfter.flat = cachedBefore.flat
                      /\ cachedAfter.flat = after.flat
                      /\ \A p \in DOMAIN after.flat :
                            BlobExists(blobs', after.flat[p])]_vars

\* C31's case: the third of three snapshots has just been pruned, no prune
\* came before, the sweep left one blob only, and both remaining snapshots
\* hold a file
C31_Witness ==
    /\ last.op = "prune" /\ last.ok /\ last.id = 3
    /\ clock = 3 /\ issued = {1, 2, 3}
    /\ DOMAIN snaps = {1, 2}
    /\ Cardinality(DOMAIN blobs) = 1
    /\ \A j \in DOMAIN snaps : DOMAIN Replay(snaps, j).flat # {}

====
